---- MODULE Spec2Model ----
(***************************************************************************)
(* Health-App: the action-dispatched gateway (api/health.js) over the      *)
(* Supabase schema (supabase.sql).  Tables are sets of rows; every gateway *)
(* action is one handler run from request to response.                     *)
(***************************************************************************)
EXTENDS Integers, Sequences, FiniteSets, TLC

\* ------------------------------------------------------------------ bounds
\* Calendar dates are the days 1..MaxDate.
MaxDate == 2
\* Upsert requests that may be in flight at the same time.
MaxInflight == 2
\* Accounts registered with the identity provider.
NUsers == 2

\* ------------------------------------------------------------- the domain
\* auth.users: the accounts the identity provider knows.
UserIds == <<"u1", "u2", "u3", "u4">>
Users == {UserIds[i] : i \in 1..NUsers}
\* A well-formed id that belongs to no account.
Ghost == "u0"
\* An omitted (undefined or empty, hence falsy) request parameter.
Missing == ""
\* auth.users.email, unique per account.
AuthEmail == [u1 |-> "e1", u2 |-> "e2", u3 |-> "e3", u4 |-> "e4"]
\* An address no account has.
UnknownEmail == "e0"
Dates == 1..MaxDate
\* new Date().toISOString().slice(0, 10): the clock is frozen on the last day.
Today == MaxDate
\* SQL NULL / JS null, and a present value.
Null == <<>>
Some(x) == <<x>>

\* Raw numeric request values, in tenths: undefined, a text that does not
\* parse ("abc"), or the number val/10.
Undef == [kind |-> "undef", val |-> 0]
Text == [kind |-> "text", val |-> 0]
Num(t) == [kind |-> "num", val |-> t]
\* A finite number above 2^31 - 1 (99999999999, say): parseInt returns it as
\* it is, and a column of type int refuses it (integer out of range).
Huge == [kind |-> "huge", val |-> 0]
\* What a column of type int accepts of a raw value passed through toInt.
Int4Accepts(v) == v.kind # "huge"

\* parseInt truncates toward zero.
Trunc(t) == IF t >= 0 THEN t \div 10 ELSE -((-t) \div 10)
\* A coercion that turns what is not a number into 0.
toIntZero(v) == IF v.kind = "num" THEN Some(Trunc(v.val)) ELSE Some(0)
toInt(v) == IF v.kind = "num" THEN Some(Trunc(v.val)) ELSE Null
\* Floats are kept in tenths.
toFloat(v) == IF v.kind = "num" THEN Some(v.val) ELSE Null
\* JS `x || 0`: null and 0 both give 0.
OrZero(m) == IF m = Null THEN 0 ELSE m[1]
\* JS `toInt(qp.rangeDays) || 7`.
OrSeven(m) == IF m = Null \/ m[1] = 0 THEN 7 ELSE m[1]

VARIABLES
    profiles,
    patient_profiles,
    doctor_profiles,
    habits,
    vitals,
    doctor_patient_links,
    last,
    inflight,
    cacheRef,
    cacheCall,
    card

\* The state of the browser client: the data cache and a card of the UI.
client == <<cacheRef, cacheCall, card>>

vars == <<profiles, patient_profiles, doctor_profiles, habits, vitals,
          doctor_patient_links, last, inflight, cacheRef, cacheCall, card>>

\* ------------------------------------------------------- the data cache
\* An argument the caller left out (undefined).
Omitted == "<omitted>"
\* JS truthiness of a string argument: undefined and '' are falsy.
Truthy(x) == x \notin {Omitted, ""}

EmptyBucket == [k \in {} |-> ""]
\* useRef({ habits: {}, vitals: {} })
NewCache == [habits |-> EmptyBucket, vitals |-> EmptyBucket]

\* getCached(type, key): `bucket[key] ?? null`
getCached(c, type, key) ==
    LET bucket == IF type \in DOMAIN c THEN c[type] ELSE EmptyBucket
    IN  IF key \in DOMAIN bucket THEN Some(bucket[key]) ELSE Null

\* setCached(type, key, value)
setCached(c, type, key, value) ==
    LET made == IF type \in DOMAIN c THEN c ELSE (type :> EmptyBucket) @@ c
    IN  [made EXCEPT ![type] = (key :> value) @@ @]

\* clear(type, key)
clear(c, type, key) ==
    IF Truthy(type) /\ Truthy(key)
    THEN IF type \in DOMAIN c
         THEN [c EXCEPT ![type] = [k \in DOMAIN @ \ {key} |-> @[k]]]
         ELSE c
    ELSE IF Truthy(type) THEN (type :> EmptyBucket) @@ c
    ELSE NewCache

\* ------------------------------------------------------- store primitives
\* PostgREST .maybeSingle(): the row when exactly one matches, else null
\* (no row: null data; several rows: an error, and null data).
MaybeSingle(rows) == IF Cardinality(rows) = 1 THEN Some(CHOOSE r \in rows : TRUE) ELSE Null

ProfileIds(table) == {r.id : r \in table}

\* profiles.role text check (role in ('patient','doctor')); NULL passes a check.
RoleCheck(role) == role \in {"patient", "doctor", "null"}

\* profiles: upsert on conflict (id).  A key whose value is undefined is not
\* serialised, so the column is left alone on conflict and NULL on insert.
ProfilesUpsert(table, base) ==
    LET old == {r \in table : r.id = base.id}
        role == IF base.role # Missing THEN base.role
                ELSE IF old = {} THEN "null"
                ELSE (CHOOSE r \in old : TRUE).role
        row == [id |-> base.id, email |-> base.email, role |-> role]
        emailTaken == \E r \in table : r.id # base.id /\ r.email = base.email
    IN  IF ~RoleCheck(role) \/ emailTaken
        THEN [ok |-> FALSE, table |-> table]
        ELSE [ok |-> TRUE, table |-> (table \ old) \cup {row}]

\* patient_profiles / doctor_profiles: upsert on conflict (user_id) of the row
\* {user_id, age: toInt(age), ..}; user_id references profiles(id) and age
\* is of type int.  Of the detail columns the model keeps the key alone.
DetailUpsert(table, userId, profs, age) ==
    IF userId \notin ProfileIds(profs) \/ ~Int4Accepts(age)
    THEN [ok |-> FALSE, table |-> table]
    ELSE [ok |-> TRUE, table |-> {r \in table : r.user_id # userId} \cup {[user_id |-> userId]}]

getProfile(userId) == MaybeSingle({r \in profiles : r.id = userId})

ensureProfile(userId, email, payload) ==
    LET p == ProfilesUpsert(profiles, [id |-> userId, email |-> email, role |-> payload.role])
        pp == DetailUpsert(patient_profiles, userId, p.table, payload.age)
        dp == DetailUpsert(doctor_profiles, userId, p.table, payload.age)
    IN  IF ~p.ok
        THEN [ok |-> FALSE, profiles |-> profiles,
              patient_profiles |-> patient_profiles, doctor_profiles |-> doctor_profiles]
        ELSE IF payload.role = "patient"
        THEN [ok |-> pp.ok, profiles |-> p.table,
              patient_profiles |-> pp.table, doctor_profiles |-> doctor_profiles]
        ELSE IF payload.role = "doctor"
        THEN [ok |-> dp.ok, profiles |-> p.table,
              patient_profiles |-> patient_profiles, doctor_profiles |-> dp.table]
        ELSE [ok |-> TRUE, profiles |-> p.table,
              patient_profiles |-> patient_profiles, doctor_profiles |-> doctor_profiles]

\* ------------------------------------------------------------ consent links
LinkId(patientId, doctorId) == <<patientId, doctorId>>

LinkLookup(table, patientId, doctorId) ==
    MaybeSingle({r \in table : r.patient_id = patientId /\ r.doctor_id = doctorId})

\* A link table without the unique(patient_id, doctor_id) constraint.
LinksUniqueOff(table, row) == TRUE

\* unique(patient_id, doctor_id)
LinksUnique(table, row) ==
    ~\E r \in table : r.patient_id = row.patient_id /\ r.doctor_id = row.doctor_id

\* patient_id and doctor_id reference profiles(id)
LinksForeignKeys(row) ==
    row.patient_id \in ProfileIds(profiles) /\ row.doctor_id \in ProfileIds(profiles)

LinkInsert(table, row) ==
    IF LinksUnique(table, row) /\ LinksForeignKeys(row)
    THEN [ok |-> TRUE, table |-> table \cup {row}]
    ELSE [ok |-> FALSE, table |-> table]

\* A create-or-update that always writes a fresh row over the pair's row.
getOrCreateLinkFresh(table, patientId, doctorId) ==
    LET row == [id |-> LinkId(patientId, doctorId), patient_id |-> patientId,
                doctor_id |-> doctorId, patient_selected |-> FALSE,
                doctor_selected |-> FALSE]
        others == {r \in table : ~(r.patient_id = patientId /\ r.doctor_id = doctorId)}
    IN  IF LinksForeignKeys(row)
        THEN [ok |-> TRUE, link |-> row, table |-> others \cup {row}]
        ELSE [ok |-> FALSE, link |-> row, table |-> table]

getOrCreateLink(table, patientId, doctorId) ==
    LET existing == LinkLookup(table, patientId, doctorId)
        row == [id |-> LinkId(patientId, doctorId), patient_id |-> patientId,
                doctor_id |-> doctorId, patient_selected |-> FALSE,
                doctor_selected |-> FALSE]
        ins == LinkInsert(table, row)
    IN  IF existing # Null
        THEN [ok |-> TRUE, link |-> existing[1], table |-> table]
        ELSE [ok |-> ins.ok, link |-> row, table |-> ins.table]

\* An update that sets both flags of the row.
SetPatientSelectedBoth(table, id) ==
    {IF r.id = id THEN [r EXCEPT !.patient_selected = TRUE, !.doctor_selected = TRUE]
     ELSE r : r \in table}

\* An update that flips the patient's flag.
SetPatientSelectedToggle(table, id) ==
    {IF r.id = id THEN [r EXCEPT !.patient_selected = ~r.patient_selected]
     ELSE r : r \in table}

\* update({patient_selected: true}).eq('id', id)
SetPatientSelected(table, id) ==
    {IF r.id = id THEN [r EXCEPT !.patient_selected = TRUE] ELSE r : r \in table}

\* update({doctor_selected: true}).eq('id', id)
SetDoctorSelected(table, id) ==
    {IF r.id = id THEN [r EXCEPT !.doctor_selected = TRUE] ELSE r : r \in table}

\* A gate that is content with one party's consent.
canDoctorViewOneSided(doctorId, patientId) ==
    LET data == MaybeSingle({r \in doctor_patient_links :
                                r.doctor_id = doctorId /\ r.patient_id = patientId})
    IN  IF data = Null THEN FALSE
        ELSE data[1].patient_selected \/ data[1].doctor_selected

canDoctorView(doctorId, patientId) ==
    LET data == MaybeSingle({r \in doctor_patient_links :
                                r.doctor_id = doctorId /\ r.patient_id = patientId})
    IN  IF data = Null THEN FALSE
        ELSE data[1].patient_selected /\ data[1].doctor_selected

\* A gate that lets a caller through whose cache holds an entry for the
\* account asked for.
CrossAccountGateCached(userId, forUserId) ==
    IF forUserId = userId THEN 0
    ELSE IF getCached(cacheRef, "habits", forUserId) # Null THEN 0
    ELSE LET profile == MaybeSingle({r \in profiles : r.id = userId})
         IN  IF profile = Null THEN 403
             ELSE IF profile[1].role # "doctor" THEN 403
             ELSE IF ~canDoctorView(userId, forUserId) THEN 403
             ELSE 0

\* A gate that puts the caller's own rows behind the doctor check too.
CrossAccountGateNoSelf(userId, forUserId) ==
    LET profile == MaybeSingle({r \in profiles : r.id = userId})
    IN  IF profile = Null THEN 403
        ELSE IF profile[1].role # "doctor" THEN 403
        ELSE IF forUserId = userId THEN 0
        ELSE IF ~canDoctorView(userId, forUserId) THEN 403
        ELSE 0

\* The cross-account gate of profile.get, habits.fetch and vitals.fetch:
\* 0 when the request may go on, else the status it is answered with.
CrossAccountGate(userId, forUserId) ==
    IF forUserId = userId THEN 0
    ELSE LET profile == getProfile(userId)
         IN  IF profile = Null THEN 403
             ELSE IF profile[1].role # "doctor" THEN 403
             ELSE IF ~canDoctorView(userId, forUserId) THEN 403
             ELSE 0

\* ------------------------------------------------------------ daily records
\* Row ids stand for gen_random_uuid(): one per inserted row.  Rows are never
\* deleted and (user_id, date) is unique, so the key names the row.
RecordId(userId, date) == <<userId, date>>
WithId(row, id) == ("id" :> id) @@ row

\* body.date || new Date().toISOString().slice(0, 10); 0 is an omitted date.
DateOf(dateIn) == IF dateIn = 0 THEN Today ELSE dateIn

\* select('id').eq('user_id', ..).eq('date', ..).maybeSingle()
RecordLookup(table, userId, date) ==
    LET data == MaybeSingle({r \in table : r.user_id = userId /\ r.date = date})
    IN  IF data = Null THEN Null ELSE Some(data[1].id)

\* A table without the unique(user_id, date) constraint.
RecordUniqueOff(table, row) == TRUE

\* unique(user_id, date) of habits and of vitals
RecordUnique(table, row) ==
    ~\E r \in table : r.user_id = row.user_id /\ r.date = row.date

\* user_id references profiles(id)
RecordForeignKey(row) == row.user_id \in ProfileIds(profiles)

RecordInsert(table, row) ==
    IF RecordUnique(table, row) /\ RecordForeignKey(row)
    THEN [ok |-> TRUE, table |-> table \cup {WithId(row, RecordId(row.user_id, row.date))}]
    ELSE [ok |-> FALSE, table |-> table]

\* An update that keeps the stored row.
RecordUpdateKeep(table, id, row) == [ok |-> TRUE, table |-> table]

\* update(row).eq('id', id): every column but id is overwritten.
RecordUpdate(table, id, row) ==
    [ok |-> TRUE, table |-> {IF r.id = id THEN WithId(row, r.id) ELSE r : r \in table}]

\* if (existing) update else insert; an error is thrown (500).
RecordWrite(table, existing, row) ==
    IF existing # Null THEN RecordUpdate(table, existing[1], row)
    ELSE RecordInsert(table, row)

\* A row keyed by the user_id the body names.
HabitRowNamed(userId, date, body) ==
    [user_id |-> body.user_id, date |-> date,
     steps |-> OrZero(toInt(body.steps)),
     water_cups |-> OrZero(toInt(body.water_cups)),
     sleep_hours |-> OrZero(toFloat(body.sleep_hours))]

HabitRow(userId, date, body) ==
    [user_id |-> userId, date |-> date,
     steps |-> OrZero(toInt(body.steps)),
     water_cups |-> OrZero(toInt(body.water_cups)),
     sleep_hours |-> OrZero(toFloat(body.sleep_hours))]

VitalRow(userId, date, body) ==
    [user_id |-> userId, date |-> date,
     blood_glucose |-> toInt(body.blood_glucose),
     blood_pressure_sys |-> toInt(body.blood_pressure_sys),
     blood_pressure_dia |-> toInt(body.blood_pressure_dia),
     heart_rate |-> toInt(body.heart_rate),
     body_temperature |-> toFloat(body.body_temperature)]

\* daysAgoISO(days)
daysAgoISO(days) == Today - days

RECURSIVE OrderDesc(_)
\* .order('date', { ascending: false })
OrderDesc(rows) ==
    IF rows = {} THEN <<>>
    ELSE LET top == CHOOSE r \in rows : \A s \in rows : s.date <= r.date
         IN  <<top>> \o OrderDesc(rows \ {top})

HabitColumns(r) ==
    [date |-> r.date, steps |-> r.steps, water_cups |-> r.water_cups,
     sleep_hours |-> r.sleep_hours]

VitalColumns(r) ==
    [date |-> r.date, blood_glucose |-> r.blood_glucose,
     blood_pressure_sys |-> r.blood_pressure_sys,
     blood_pressure_dia |-> r.blood_pressure_dia,
     heart_rate |-> r.heart_rate, body_temperature |-> r.body_temperature]

habitsSelect(forUserId, since) ==
    OrderDesc({HabitColumns(r) : r \in {x \in habits : x.user_id = forUserId /\ x.date >= since}})

vitalsSelect(forUserId, since) ==
    OrderDesc({VitalColumns(r) : r \in {x \in vitals : x.user_id = forUserId /\ x.date >= since}})

\* ---------------------------------------------------------------- requests
\* The request the gateway answered last, with its response; existing is what
\* the handler's lookup found (upserts: the row id; link.select: the link).
Response(action, caller, target, email, date, body, status, data, existing) ==
    [action |-> action, caller |-> caller, target |-> target, email |-> email,
     date |-> date, body |-> body, status |-> status, data |-> data,
     existing |-> existing]

NoRequest == Response("none", "", "", "", 0, Null, 0, <<>>, Null)

Idle == [pc |-> "idle", action |-> "none", user |-> "", date |-> 0, body |-> Null,
         existing |-> Null, status |-> 0]

Slots == 1..MaxInflight

\* Request inputs.
RoleInputs == {"patient", "doctor", Missing, "admin"}
TargetInputs == Users \cup {Ghost, Missing}
EmailInputs == {AuthEmail[u] : u \in Users} \cup {UnknownEmail, Missing}
DateInputs == 0..MaxDate
RangeInputs == {Undef, Num(10)}
HabitBodies ==
    {[steps |-> Num(50000), water_cups |-> Num(60), sleep_hours |-> Num(75)],
     [steps |-> Undef, water_cups |-> Text, sleep_hours |-> Num(-30)]}
VitalBodies ==
    {[blood_glucose |-> Num(950), blood_pressure_sys |-> Num(1200),
      blood_pressure_dia |-> Num(800), heart_rate |-> Num(605),
      body_temperature |-> Num(367)],
     [blood_glucose |-> Undef, blood_pressure_sys |-> Text,
      blood_pressure_dia |-> Undef, heart_rate |-> Num(0),
      body_temperature |-> Undef]}

\* The bodies of the records a read is shown returning.
SeedHabitBodies ==
    {[steps |-> Num(50000), water_cups |-> Num(60), sleep_hours |-> Num(75)]}
SeedVitalBodies ==
    {[blood_glucose |-> Num(950), blood_pressure_sys |-> Num(1200),
      blood_pressure_dia |-> Num(800), heart_rate |-> Num(605),
      body_temperature |-> Num(367)]}

\* The call the cache answered last, with its result.
Call(op, type, key, value, result) ==
    [op |-> op, type |-> type, key |-> key, value |-> value, result |-> result]

NoCall == Call("none", "", "", "", Null)

\* A fetch of the card: load() has sent it ("sent"), the gateway has answered
\* it ("answered"), or the slot is free.
Fetch(pc, target, status, data) ==
    [pc |-> pc, target |-> target, status |-> status, data |-> data]

NoFetch == Fetch("idle", Missing, 0, <<>>)

\* The account signed in at the card.
CardViewer == UserIds[1]

\* HabitsCard when it has mounted: no patient selected, no entries, the
\* load() of its first effect in flight.  shownFor is the selection whose
\* response filled data.
NewCard ==
    [selected |-> Missing, data |-> <<>>, shownFor |-> "none",
     fetches |-> [s \in Slots |-> IF s = 1 THEN Fetch("sent", Missing, 0, <<>>)
                                  ELSE NoFetch]]

Init ==
    /\ profiles = {}
    /\ patient_profiles = {}
    /\ doctor_profiles = {}
    /\ habits = {}
    /\ vitals = {}
    /\ doctor_patient_links = {}
    /\ last = NoRequest
    /\ inflight = [s \in Slots |-> Idle]
    /\ cacheRef = NewCache
    /\ cacheCall = NoCall
    /\ card = NewCard

GetCached(type, key) ==
    /\ cacheCall' = Call("getCached", type, key, "", getCached(cacheRef, type, key))
    /\ UNCHANGED <<profiles, patient_profiles, doctor_profiles, habits, vitals,
                   doctor_patient_links, last, inflight, cacheRef, card>>

SetCached(type, key, value) ==
    /\ cacheRef' = setCached(cacheRef, type, key, value)
    /\ cacheCall' = Call("setCached", type, key, value, Null)
    /\ UNCHANGED <<profiles, patient_profiles, doctor_profiles, habits, vitals,
                   doctor_patient_links, last, inflight, card>>

Clear(type, key) ==
    /\ cacheRef' = clear(cacheRef, type, key)
    /\ cacheCall' = Call("clear", type, key, "", Null)
    /\ UNCHANGED <<profiles, patient_profiles, doctor_profiles, habits, vitals,
                   doctor_patient_links, last, inflight, card>>

\* The doctor picks a patient of its list (or none): targetUserId changes and
\* the effect calls load(), which sends habits.fetch for the new selection.
CardSelect(s, t) ==
    /\ t # card.selected
    /\ t = Missing
       \/ \E r \in doctor_patient_links :
             /\ r.patient_id = t /\ r.doctor_id = CardViewer
             /\ r.patient_selected /\ r.doctor_selected
    /\ card.fetches[s].pc = "idle"
    /\ card' = [card EXCEPT !.selected = t,
                            !.fetches[s] = Fetch("sent", t, 0, <<>>)]
    /\ UNCHANGED <<profiles, patient_profiles, doctor_profiles, habits, vitals,
                   doctor_patient_links, last, inflight, cacheRef, cacheCall>>

\* case 'profile.upsert'
ProfileUpsert(u, role, age) ==
    LET e == ensureProfile(u, AuthEmail[u], [role |-> role, age |-> age])
    IN  /\ profiles' = e.profiles
        /\ patient_profiles' = e.patient_profiles
        /\ doctor_profiles' = e.doctor_profiles
        /\ last' = Response("profile.upsert", u, role, "", 0, Null,
                            IF e.ok THEN 200 ELSE 500,
                            IF e.ok THEN MaybeSingle({r \in e.profiles : r.id = u}) ELSE <<>>,
                            Null)
        /\ UNCHANGED <<client, habits, vitals, doctor_patient_links, inflight>>

\* A profile.get that goes on without a user_id.
profileGetNoTargetCheck(u, forUserId) ==
    LET gate == CrossAccountGate(u, forUserId)
        prof == MaybeSingle({r \in profiles : r.id = forUserId})
    IN  IF gate # 0 THEN [status |-> gate, data |-> <<>>]
        ELSE IF prof = Null THEN [status |-> 404, data |-> <<>>]
        ELSE [status |-> 200, data |-> prof]

\* A profile.get that looks the profile up before it checks the caller.
profileGetExistenceFirst(u, forUserId) ==
    LET gate == IF forUserId = Missing THEN 400 ELSE CrossAccountGate(u, forUserId)
        prof == MaybeSingle({r \in profiles : r.id = forUserId})
    IN  IF forUserId = Missing THEN [status |-> 400, data |-> <<>>]
        ELSE IF prof = Null THEN [status |-> 404, data |-> <<>>]
        ELSE IF gate # 0 THEN [status |-> gate, data |-> <<>>]
        ELSE [status |-> 200, data |-> prof]

\* case 'profile.get'
profileGet(u, forUserId) ==
    LET gate == IF forUserId = Missing THEN 400 ELSE CrossAccountGate(u, forUserId)
        prof == MaybeSingle({r \in profiles : r.id = forUserId})
    IN  IF gate # 0 THEN [status |-> gate, data |-> <<>>]
        ELSE IF prof = Null THEN [status |-> 404, data |-> <<>>]
        ELSE [status |-> 200, data |-> prof]

ProfileGet(u, target) ==
    LET r == profileGet(u, target)
    IN  /\ last' = Response("profile.get", u, target, "", 0, Null, r.status, r.data, Null)
        /\ UNCHANGED <<client, profiles, patient_profiles, doctor_profiles, habits, vitals,
                       doctor_patient_links, inflight>>

\* case 'habits.fetch'
habitsFetch(u, target, range) ==
    LET rangeDays == OrSeven(toInt(range))
        forUserId == IF target = Missing THEN u ELSE target
        gate == CrossAccountGate(u, forUserId)
    IN  IF gate # 0 THEN [status |-> gate, data |-> <<>>]
        ELSE [status |-> 200, data |-> habitsSelect(forUserId, daysAgoISO(rangeDays))]

HabitsFetch(u, target, range) ==
    LET r == habitsFetch(u, target, range)
    IN  /\ last' = Response("habits.fetch", u, target, "", 0, Null, r.status, r.data, Null)
        /\ UNCHANGED <<client, profiles, patient_profiles, doctor_profiles, habits, vitals,
                       doctor_patient_links, inflight>>

\* case 'vitals.fetch'
vitalsFetch(u, target, range) ==
    LET rangeDays == OrSeven(toInt(range))
        forUserId == IF target = Missing THEN u ELSE target
        gate == CrossAccountGate(u, forUserId)
    IN  IF gate # 0 THEN [status |-> gate, data |-> <<>>]
        ELSE [status |-> 200, data |-> vitalsSelect(forUserId, daysAgoISO(rangeDays))]

VitalsFetch(u, target, range) ==
    LET r == vitalsFetch(u, target, range)
    IN  /\ last' = Response("vitals.fetch", u, target, "", 0, Null, r.status, r.data, Null)
        /\ UNCHANGED <<client, profiles, patient_profiles, doctor_profiles, habits, vitals,
                       doctor_patient_links, inflight>>

\* case 'habits.upsert', run from request to response
HabitsUpsert(u, dateIn, body) ==
    LET date == DateOf(dateIn)
        existing == RecordLookup(habits, u, date)
        w == RecordWrite(habits, existing, HabitRow(u, date, body))
    IN  /\ habits' = w.table
        /\ last' = Response("habits.upsert", u, "", "", date, Some(body),
                            IF w.ok THEN 200 ELSE 500, <<>>, existing)
        /\ UNCHANGED <<client, profiles, patient_profiles, doctor_profiles, vitals,
                       doctor_patient_links, inflight>>

\* case 'vitals.upsert', run from request to response
VitalsUpsert(u, dateIn, body) ==
    LET date == DateOf(dateIn)
        existing == RecordLookup(vitals, u, date)
        w == RecordWrite(vitals, existing, VitalRow(u, date, body))
    IN  /\ vitals' = w.table
        /\ last' = Response("vitals.upsert", u, "", "", date, Some(body),
                            IF w.ok THEN 200 ELSE 500, <<>>, existing)
        /\ UNCHANGED <<client, profiles, patient_profiles, doctor_profiles, habits,
                       doctor_patient_links, inflight>>

\* A lookup by email alone, whatever the account's role.
PatientByEmailAnyRole(patientEmail) ==
    MaybeSingle({r \in profiles : r.email = patientEmail})

\* from('profiles').select('id, email').eq('email', ..).eq('role', 'patient')
\* .maybeSingle()
PatientByEmail(patientEmail) ==
    MaybeSingle({r \in profiles : r.email = patientEmail /\ r.role = "patient"})

\* case 'link.select': the status, the link table it leaves, and the link
\* getOrCreateLink returned (the row as it was before the flag update).
linkSelect(u, doctorId, patientEmail) ==
    LET myProfile == getProfile(u)
        asPatient == getOrCreateLink(doctor_patient_links, u, doctorId)
        patient == PatientByEmail(patientEmail)
        asDoctor == getOrCreateLink(doctor_patient_links, patient[1].id, u)
        same == doctor_patient_links
    IN  IF myProfile = Null THEN [status |-> 400, table |-> same, link |-> Null]
        ELSE IF myProfile[1].role = "patient"
        THEN IF doctorId = Missing THEN [status |-> 400, table |-> same, link |-> Null]
             ELSE IF ~asPatient.ok THEN [status |-> 500, table |-> same, link |-> Null]
             ELSE [status |-> 200,
                   table |-> SetPatientSelected(asPatient.table, asPatient.link.id),
                   link |-> Some(asPatient.link)]
        ELSE IF myProfile[1].role = "doctor"
        THEN IF patientEmail = Missing THEN [status |-> 400, table |-> same, link |-> Null]
             ELSE IF patient = Null THEN [status |-> 404, table |-> same, link |-> Null]
             ELSE IF ~asDoctor.ok THEN [status |-> 500, table |-> same, link |-> Null]
             ELSE [status |-> 200,
                   table |-> SetDoctorSelected(asDoctor.table, asDoctor.link.id),
                   link |-> Some(asDoctor.link)]
        ELSE [status |-> 403, table |-> same, link |-> Null]

LinkSelect(u, doctorId, patientEmail) ==
    LET r == linkSelect(u, doctorId, patientEmail)
    IN  /\ doctor_patient_links' = r.table
        /\ last' = Response("link.select", u, doctorId, patientEmail, 0, Null,
                            r.status, <<>>, r.link)
        /\ UNCHANGED <<client, profiles, patient_profiles, doctor_profiles, habits, vitals,
                       inflight>>

\* The columns of profiles.
ProfilesColumns == {"id", "email", "name", "role", "created_at"}

\* An embedded resource `alias:fk_column(columns)` of a select on
\* doctor_patient_links: the text before the colon is the alias, the one after
\* it the foreign-key column, and the row embedded is the one that column
\* references, a row of profiles.  Asking it for a column profiles does not
\* have is an error of the query.
EmbedByForeignKey(columns) == columns \subseteq ProfilesColumns

RECURSIVE InSomeOrder(_)
\* The rows of a select without an order clause.
InSomeOrder(rows) ==
    IF rows = {} THEN <<>>
    ELSE LET r == CHOOSE x \in rows : TRUE
         IN  <<r>> \o InSomeOrder(rows \ {r})

\* case 'link.list': items are kept by their id.
linkList(u) ==
    LET myProfile == getProfile(u)
        doctors == {r.doctor_id : r \in {x \in doctor_patient_links :
                        x.patient_id = u /\ x.patient_selected /\ x.doctor_selected}}
        patients == {r.patient_id : r \in {x \in doctor_patient_links :
                        x.doctor_id = u /\ x.patient_selected /\ x.doctor_selected}}
    IN  IF myProfile = Null THEN [status |-> 400, data |-> <<>>]
        ELSE IF myProfile[1].role = "patient"
        THEN IF EmbedByForeignKey({"name"}) /\ EmbedByForeignKey({"speciality"})
             THEN [status |-> 200, data |-> InSomeOrder(doctors)]
             ELSE [status |-> 500, data |-> <<>>]
        ELSE IF myProfile[1].role = "doctor"
        THEN IF EmbedByForeignKey({"name", "email"})
             THEN [status |-> 200, data |-> InSomeOrder(patients)]
             ELSE [status |-> 500, data |-> <<>>]
        ELSE [status |-> 403, data |-> <<>>]

LinkList(u) ==
    LET r == linkList(u)
    IN  /\ last' = Response("link.list", u, "", "", 0, Null, r.status, r.data, Null)
        /\ UNCHANGED <<client, profiles, patient_profiles, doctor_profiles, habits, vitals,
                       doctor_patient_links, inflight>>

\* A list of every account that has a doctor_profiles row, whatever its role.
doctorsListAnyRole == InSomeOrder({d.user_id : d \in doctor_profiles})

\* case 'doctors.list': profiles of role doctor inner-joined with
\* doctor_profiles; items are kept by their id.
doctorsList ==
    InSomeOrder({r.id : r \in {x \in profiles :
                    x.role = "doctor" /\ x.id \in {d.user_id : d \in doctor_profiles}}})

DoctorsList(u) ==
    /\ last' = Response("doctors.list", u, "", "", 0, Null, 200, doctorsList, Null)
    /\ UNCHANGED <<client, profiles, patient_profiles, doctor_profiles, habits, vitals,
                   doctor_patient_links, inflight>>

\* ------------------------------------------------------ the handler, whole
\* What a request carries as credential: no Authorization header, a header
\* whose token is empty, a token the identity provider answers with an error
\* (expired or forged, here in the name of user), or an account's valid token.
NoHeader == [kind |-> "none", user |-> ""]
EmptyToken == [kind |-> "empty", user |-> ""]
Rejected(u) == [kind |-> "rejected", user |-> u]
Valid(u) == [kind |-> "valid", user |-> u]

\* An authentication that takes the user the token names without looking at
\* the identity provider's error.
getAuthUserUnchecked(cred) ==
    IF cred.kind \in {"valid", "rejected"} THEN Some(cred.user) ELSE Null

getAuthUser(cred) == IF cred.kind = "valid" THEN Some(cred.user) ELSE Null

\* A request: the action and user_id of the query string, and the fields of
\* the JSON body.
Request(action, userId, role, doctorId, patientEmail) ==
    [action |-> action, user_id |-> userId, role |-> role, doctor_id |-> doctorId,
     patient_email |-> patientEmail]

\* The body is parsed for POST alone; any other method leaves it {}.
BodyOf(method, req) ==
    IF method = "POST"
    THEN [role |-> req.role, doctor_id |-> req.doctor_id,
          patient_email |-> req.patient_email, sent |-> TRUE]
    ELSE [role |-> Missing, doctor_id |-> Missing, patient_email |-> Missing,
          sent |-> FALSE]

\* The numeric fields of an upsert's body: the sample record, or nothing.
HabitFields(body) ==
    IF body.sent THEN [steps |-> Num(50000), water_cups |-> Num(60), sleep_hours |-> Num(75)]
    ELSE [steps |-> Undef, water_cups |-> Undef, sleep_hours |-> Undef]

VitalFields(body) ==
    IF body.sent
    THEN [blood_glucose |-> Num(950), blood_pressure_sys |-> Num(1200),
          blood_pressure_dia |-> Num(800), heart_rate |-> Num(605),
          body_temperature |-> Num(367)]
    ELSE [blood_glucose |-> Undef, blood_pressure_sys |-> Undef,
          blood_pressure_dia |-> Undef, heart_rate |-> Undef,
          body_temperature |-> Undef]

\* The tables as they are, with some of them replaced.
Tables == [profiles |-> profiles, patient_profiles |-> patient_profiles,
           doctor_profiles |-> doctor_profiles, habits |-> habits, vitals |-> vitals,
           doctor_patient_links |-> doctor_patient_links]

Answer(status, data, tables) == [status |-> status, data |-> data, tables |-> tables]

\* switch (action): the response and the tables the case leaves.
dispatch(u, req, body) ==
    IF req.action = "me" THEN Answer(200, getProfile(u), Tables)
    ELSE IF req.action = "profile.get"
    THEN LET r == profileGet(u, req.user_id) IN Answer(r.status, r.data, Tables)
    ELSE IF req.action = "profile.upsert"
    THEN LET e == ensureProfile(u, AuthEmail[u], [role |-> body.role, age |-> Undef])
         IN  Answer(IF e.ok THEN 200 ELSE 500,
                    IF e.ok THEN MaybeSingle({r \in e.profiles : r.id = u}) ELSE <<>>,
                    [Tables EXCEPT !.profiles = e.profiles,
                                   !.patient_profiles = e.patient_profiles,
                                   !.doctor_profiles = e.doctor_profiles])
    ELSE IF req.action = "habits.upsert"
    THEN LET w == RecordWrite(habits, RecordLookup(habits, u, Today),
                              HabitRow(u, Today, HabitFields(body)))
         IN  Answer(IF w.ok THEN 200 ELSE 500, <<>>, [Tables EXCEPT !.habits = w.table])
    ELSE IF req.action = "habits.fetch"
    THEN LET r == habitsFetch(u, req.user_id, Undef) IN Answer(r.status, r.data, Tables)
    ELSE IF req.action = "vitals.upsert"
    THEN LET w == RecordWrite(vitals, RecordLookup(vitals, u, Today),
                              VitalRow(u, Today, VitalFields(body)))
         IN  Answer(IF w.ok THEN 200 ELSE 500, <<>>, [Tables EXCEPT !.vitals = w.table])
    ELSE IF req.action = "vitals.fetch"
    THEN LET r == vitalsFetch(u, req.user_id, Undef) IN Answer(r.status, r.data, Tables)
    ELSE IF req.action = "doctors.list" THEN Answer(200, doctorsList, Tables)
    ELSE IF req.action = "link.select"
    THEN LET r == linkSelect(u, body.doctor_id, body.patient_email)
         IN  Answer(r.status, <<>>, [Tables EXCEPT !.doctor_patient_links = r.table])
    ELSE IF req.action = "link.list"
    THEN LET r == linkList(u) IN Answer(r.status, r.data, Tables)
    ELSE Answer(400, <<>>, Tables)

\* export default async function handler(req, res)
handler(method, cred, req) ==
    LET user == getAuthUser(cred)
    IN  IF method = "OPTIONS" THEN Answer(204, <<>>, Tables)
        ELSE IF user = Null THEN Answer(401, <<>>, Tables)
        ELSE dispatch(user[1], req, BodyOf(method, req))

\* The request answered last, with the method and credential it came with.
Exchange(method, cred, req, status, data) ==
    [method |-> method, credential |-> cred, action |-> req.action,
     caller |-> IF cred.kind = "valid" THEN cred.user ELSE "",
     target |-> IF req.user_id # Missing THEN req.user_id ELSE req.doctor_id,
     email |-> req.patient_email, date |-> 0, body |-> Null, status |-> status,
     data |-> data, existing |-> Null]

Handler(method, cred, req) ==
    LET a == handler(method, cred, req)
    IN  /\ profiles' = a.tables.profiles
        /\ patient_profiles' = a.tables.patient_profiles
        /\ doctor_profiles' = a.tables.doctor_profiles
        /\ habits' = a.tables.habits
        /\ vitals' = a.tables.vitals
        /\ doctor_patient_links' = a.tables.doctor_patient_links
        /\ last' = Exchange(method, cred, req, a.status, a.data)
        /\ UNCHANGED <<inflight, client>>

Methods == {"GET", "POST", "OPTIONS"}
Credentials == {NoHeader, EmptyToken} \cup {Rejected(u) : u \in Users}
                   \cup {Valid(u) : u \in Users}
Requests ==
    {Request(a, Missing, Missing, Missing, Missing) :
        a \in {"me", "bogus"}}
    \cup {Request("profile.upsert", Missing, role, Missing, Missing) :
            role \in {"patient", "doctor"}}
    \cup {Request("link.select", Missing, Missing, t, Missing) : t \in Users}

\* ------------------------------------------------------------- the card
\* The gateway answers a fetch of the card (rangeDays=7).
CardServe(s) ==
    /\ card.fetches[s].pc = "sent"
    /\ LET t == card.fetches[s].target
           r == habitsFetch(CardViewer, t, Num(70))
       IN  /\ last' = Response("habits.fetch", CardViewer, t, "", 0, Null,
                               r.status, r.data, Null)
           /\ card' = [card EXCEPT !.fetches[s] = Fetch("answered", t, r.status, r.data)]
    /\ UNCHANGED <<profiles, patient_profiles, doctor_profiles, habits, vitals,
                   doctor_patient_links, inflight, cacheRef, cacheCall>>

\* The response reaches load(): setData(res.items) when it is ok; apiFetch
\* throws otherwise and the catch leaves data as it is.
CardDeliver(s) ==
    /\ card.fetches[s].pc = "answered"
    /\ LET f == card.fetches[s]
       IN  card' = IF f.status = 200
                   THEN [card EXCEPT !.data = f.data, !.shownFor = f.target,
                                     !.fetches[s] = NoFetch]
                   ELSE [card EXCEPT !.fetches[s] = NoFetch]
    /\ UNCHANGED <<profiles, patient_profiles, doctor_profiles, habits, vitals,
                   doctor_patient_links, last, inflight, cacheRef, cacheCall>>

\* ------------------------------------------------------- store failures
\* The store reads of 'me', 'profile.get' and 'habits.fetch'; in `failed`
\* are the ones whose call comes back with an error during the request.
StoreReads == {"getProfile", "canDoctorView", "profiles", "detail", "habits"}

\* getProfile: `if (error) return null`
getProfileOn(failed, userId) ==
    IF "getProfile" \in failed THEN Null ELSE getProfile(userId)

\* canDoctorView: `if (error || !data) return false`
canDoctorViewOn(failed, doctorId, patientId) ==
    IF "canDoctorView" \in failed THEN FALSE ELSE canDoctorView(doctorId, patientId)

\* The cross-account gate over a store that may fail; ran is the set of
\* store reads the gate made.
CrossAccountGateOn(failed, userId, forUserId) ==
    IF forUserId = userId THEN [status |-> 0, ran |-> {}]
    ELSE LET profile == getProfileOn(failed, userId)
         IN  IF profile = Null THEN [status |-> 403, ran |-> {"getProfile"}]
             ELSE IF profile[1].role # "doctor"
             THEN [status |-> 403, ran |-> {"getProfile"}]
             ELSE IF ~canDoctorViewOn(failed, userId, forUserId)
             THEN [status |-> 403, ran |-> {"getProfile", "canDoctorView"}]
             ELSE [status |-> 0, ran |-> {"getProfile", "canDoctorView"}]

\* case 'me'
meOn(failed, u) ==
    [status |-> 200, data |-> getProfileOn(failed, u), ran |-> {"getProfile"}]

\* case 'profile.get': `if (pErr || !prof) return 404`; the error of the
\* detail read is not looked at.
profileGetOn(failed, u, forUserId) ==
    LET gate == CrossAccountGateOn(failed, u, forUserId)
        prof == MaybeSingle({r \in profiles : r.id = forUserId})
    IN  IF forUserId = Missing THEN [status |-> 400, data |-> <<>>, ran |-> {}]
        ELSE IF gate.status # 0
        THEN [status |-> gate.status, data |-> <<>>, ran |-> gate.ran]
        ELSE IF "profiles" \in failed \/ prof = Null
        THEN [status |-> 404, data |-> <<>>, ran |-> gate.ran \cup {"profiles"}]
        ELSE IF prof[1].role \in {"patient", "doctor"}
        THEN [status |-> 200, data |-> prof, ran |-> gate.ran \cup {"profiles", "detail"}]
        ELSE [status |-> 200, data |-> prof, ran |-> gate.ran \cup {"profiles"}]

\* case 'habits.fetch': `if (error) throw error`
habitsFetchOn(failed, u, target, range) ==
    LET rangeDays == OrSeven(toInt(range))
        forUserId == IF target = Missing THEN u ELSE target
        gate == CrossAccountGateOn(failed, u, forUserId)
    IN  IF gate.status # 0
        THEN [status |-> gate.status, data |-> <<>>, ran |-> gate.ran]
        ELSE IF "habits" \in failed
        THEN [status |-> 500, data |-> <<>>, ran |-> gate.ran \cup {"habits"}]
        ELSE [status |-> 200, data |-> habitsSelect(forUserId, daysAgoISO(rangeDays)),
              ran |-> gate.ran \cup {"habits"}]

\* A read answered over a store that may fail; last.failed is the set of
\* store reads of this request that failed.
ReadOn(action, failed, u, target, r) ==
    /\ last' = [failed |-> failed \cap r.ran]
                   @@ Response(action, u, target, "", 0, Null, r.status, r.data, Null)
    /\ UNCHANGED <<client, profiles, patient_profiles, doctor_profiles, habits, vitals,
                   doctor_patient_links, inflight>>

MeOn(failed, u) == ReadOn("me", failed, u, Missing, meOn(failed, u))

ProfileGetOn(failed, u, target) ==
    ReadOn("profile.get", failed, u, target, profileGetOn(failed, u, target))

HabitsFetchOn(failed, u, target) ==
    ReadOn("habits.fetch", failed, u, target, habitsFetchOn(failed, u, target, Undef))

\* ---------------------------------------------- upserts, step by step
\* The handler's first await: the lookup by (user_id, date).
HabitsUpsertLookup(s, u, dateIn, body) ==
    /\ inflight[s].pc = "idle"
    /\ inflight' = [inflight EXCEPT ![s] =
           [pc |-> "looked", action |-> "habits.upsert", user |-> u,
            date |-> DateOf(dateIn), body |-> Some(body),
            existing |-> RecordLookup(habits, u, DateOf(dateIn)), status |-> 0]]
    /\ UNCHANGED <<client, profiles, patient_profiles, doctor_profiles, habits, vitals,
                   doctor_patient_links, last>>

\* The handler's second await: update or insert, then the response.
HabitsUpsertWrite(s) ==
    /\ inflight[s].pc = "looked"
    /\ inflight[s].action = "habits.upsert"
    /\ LET r == inflight[s]
           w == RecordWrite(habits, r.existing, HabitRow(r.user, r.date, r.body[1]))
       IN  /\ habits' = w.table
           /\ inflight' = [inflight EXCEPT ![s] =
                  [r EXCEPT !.pc = "done", !.existing = Null,
                            !.status = IF w.ok THEN 200 ELSE 500]]
    /\ UNCHANGED <<client, profiles, patient_profiles, doctor_profiles, vitals,
                   doctor_patient_links, last>>

VitalsUpsertLookup(s, u, dateIn, body) ==
    /\ inflight[s].pc = "idle"
    /\ inflight' = [inflight EXCEPT ![s] =
           [pc |-> "looked", action |-> "vitals.upsert", user |-> u,
            date |-> DateOf(dateIn), body |-> Some(body),
            existing |-> RecordLookup(vitals, u, DateOf(dateIn)), status |-> 0]]
    /\ UNCHANGED <<client, profiles, patient_profiles, doctor_profiles, habits, vitals,
                   doctor_patient_links, last>>

VitalsUpsertWrite(s) ==
    /\ inflight[s].pc = "looked"
    /\ inflight[s].action = "vitals.upsert"
    /\ LET r == inflight[s]
           w == RecordWrite(vitals, r.existing, VitalRow(r.user, r.date, r.body[1]))
       IN  /\ vitals' = w.table
           /\ inflight' = [inflight EXCEPT ![s] =
                  [r EXCEPT !.pc = "done", !.existing = Null,
                            !.status = IF w.ok THEN 200 ELSE 500]]
    /\ UNCHANGED <<client, profiles, patient_profiles, doctor_profiles, habits,
                   doctor_patient_links, last>>

\* The response has been delivered: the invocation is over.
Delivered(s) ==
    /\ inflight[s].pc = "done"
    /\ inflight' = [inflight EXCEPT ![s] = Idle]
    /\ UNCHANGED <<client, profiles, patient_profiles, doctor_profiles, habits, vitals,
                   doctor_patient_links, last>>

\* ------------------------------------- the link table, reached directly
\* Row-level policy "links self" on doctor_patient_links: for all, using and
\* with check (auth.uid() = patient_id or auth.uid() = doctor_id).
LinksSelfPolicy(uid, row) == uid = row.patient_id \/ uid = row.doctor_id

\* An account's own session (anon key and its bearer token) inserting a row.
StorageLinkInsert(uid, patientId, doctorId, ps, ds) ==
    LET row == [id |-> LinkId(patientId, doctorId), patient_id |-> patientId,
                doctor_id |-> doctorId, patient_selected |-> ps,
                doctor_selected |-> ds]
        ins == LinkInsert(doctor_patient_links, row)
        ok == LinksSelfPolicy(uid, row) /\ ins.ok
    IN  /\ doctor_patient_links' = IF ok THEN ins.table ELSE doctor_patient_links
        /\ last' = Response("storage.links.insert", uid, "", "", 0, Null,
                            IF ok THEN 201 ELSE 403, <<>>, Null)
        /\ UNCHANGED <<client, profiles, patient_profiles, doctor_profiles, habits, vitals,
                       inflight>>

\* An account's own session updating the flags of the rows the policy shows it.
StorageLinkUpdate(uid, patientId, doctorId, ps, ds) ==
    /\ doctor_patient_links' =
           {IF r.patient_id = patientId /\ r.doctor_id = doctorId
               /\ LinksSelfPolicy(uid, r)
            THEN [r EXCEPT !.patient_selected = ps, !.doctor_selected = ds]
            ELSE r : r \in doctor_patient_links}
    /\ last' = Response("storage.links.update", uid, "", "", 0, Null, 200, <<>>, Null)
    /\ UNCHANGED <<client, profiles, patient_profiles, doctor_profiles, habits, vitals,
                   inflight>>

\* An account's own session deleting the rows the policy shows it.
StorageLinkDelete(uid, patientId, doctorId) ==
    /\ doctor_patient_links' =
           {r \in doctor_patient_links :
               ~(r.patient_id = patientId /\ r.doctor_id = doctorId
                 /\ LinksSelfPolicy(uid, r))}
    /\ last' = Response("storage.links.delete", uid, "", "", 0, Null, 200, <<>>, Null)
    /\ UNCHANGED <<client, profiles, patient_profiles, doctor_profiles, habits, vitals,
                   inflight>>

\* ------------------------------------------ link.select, step by step
\* The new row getOrCreateLink inserts for a pair.
NewLink(pair) ==
    [id |-> LinkId(pair.patient_id, pair.doctor_id), patient_id |-> pair.patient_id,
     doctor_id |-> pair.doctor_id, patient_selected |-> FALSE,
     doctor_selected |-> FALSE]

\* A link.select invocation between its awaits: body is the pair it links and
\* the flag it sets, existing the link it holds so far.
LinkSlot(pc, u, pair, existing, status) ==
    [pc |-> pc, action |-> "link.select", user |-> u, date |-> 0, body |-> pair,
     existing |-> existing, status |-> status]

\* The handler up to getOrCreateLink's select: the caller's profile, the
\* required parameter, the patient by email, the link of the pair.  A request
\* refused here is answered at once; one that found the link goes on to the
\* update, one that found none goes on to the insert.
LinkSelectLookup(s, u, doctorId, patientEmail) ==
    LET myProfile == getProfile(u)
        patient == PatientByEmail(patientEmail)
        refused == IF myProfile = Null THEN 400
                   ELSE IF myProfile[1].role = "patient"
                   THEN (IF doctorId = Missing THEN 400 ELSE 0)
                   ELSE IF myProfile[1].role = "doctor"
                   THEN (IF patientEmail = Missing THEN 400
                         ELSE IF patient = Null THEN 404 ELSE 0)
                   ELSE 403
        pair == IF myProfile[1].role = "patient"
                THEN [patient_id |-> u, doctor_id |-> doctorId, flag |-> "patient_selected"]
                ELSE [patient_id |-> patient[1].id, doctor_id |-> u, flag |-> "doctor_selected"]
        existing == LinkLookup(doctor_patient_links, pair.patient_id, pair.doctor_id)
    IN  /\ inflight[s].pc = "idle"
        /\ inflight' = [inflight EXCEPT ![s] =
               IF refused # 0 THEN LinkSlot("done", u, Null, Null, refused)
               ELSE LinkSlot(IF existing = Null THEN "looked" ELSE "linked",
                             u, Some(pair), existing, 0)]
        /\ UNCHANGED <<client, profiles, patient_profiles, doctor_profiles, habits, vitals,
                       doctor_patient_links, last>>

\* getOrCreateLink's insert; an error is thrown and answered 500.
LinkSelectInsert(s) ==
    /\ inflight[s].pc = "looked"
    /\ inflight[s].action = "link.select"
    /\ LET r == inflight[s]
           row == NewLink(r.body[1])
           ins == LinkInsert(doctor_patient_links, row)
       IN  /\ doctor_patient_links' = ins.table
           /\ inflight' = [inflight EXCEPT ![s] =
                  IF ins.ok THEN LinkSlot("linked", r.user, r.body, Some(row), 0)
                  ELSE LinkSlot("done", r.user, r.body, Null, 500)]
    /\ UNCHANGED <<client, profiles, patient_profiles, doctor_profiles, habits, vitals, last>>

\* The update of the caller's flag by link.id, then the response.
LinkSelectUpdate(s) ==
    /\ inflight[s].pc = "linked"
    /\ inflight[s].action = "link.select"
    /\ LET r == inflight[s]
       IN  /\ doctor_patient_links' =
                  IF r.body[1].flag = "patient_selected"
                  THEN SetPatientSelected(doctor_patient_links, r.existing[1].id)
                  ELSE SetDoctorSelected(doctor_patient_links, r.existing[1].id)
           /\ inflight' = [inflight EXCEPT ![s] =
                  LinkSlot("done", r.user, r.body, Null, 200)]
    /\ UNCHANGED <<client, profiles, patient_profiles, doctor_profiles, habits, vitals, last>>

\* ------------------------- profiles, habits and vitals, reached directly
\* Row-level policies "profiles self read", "habits self" and "vitals self":
\* the rows an account's own session may select.
ProfilesSelfRead(uid, row) == uid = row.id
HabitsSelf(uid, row) == uid = row.user_id
VitalsSelf(uid, row) == uid = row.user_id

\* An account's own session selecting the profile of an id.
StorageProfilesSelect(uid, target) ==
    /\ last' = Response("storage.profiles.select", uid, target, "", 0, Null, 200,
                        InSomeOrder({r \in profiles :
                                        r.id = target /\ ProfilesSelfRead(uid, r)}),
                        Null)
    /\ UNCHANGED <<client, profiles, patient_profiles, doctor_profiles, habits, vitals,
                   doctor_patient_links, inflight>>

\* An account's own session selecting the habits of an id.
StorageHabitsSelect(uid, target) ==
    /\ last' = Response("storage.habits.select", uid, target, "", 0, Null, 200,
                        OrderDesc({HabitColumns(r) : r \in {x \in habits :
                                        x.user_id = target /\ HabitsSelf(uid, x)}}),
                        Null)
    /\ UNCHANGED <<client, profiles, patient_profiles, doctor_profiles, habits, vitals,
                   doctor_patient_links, inflight>>

\* An account's own session selecting the vitals of an id.
StorageVitalsSelect(uid, target) ==
    /\ last' = Response("storage.vitals.select", uid, target, "", 0, Null, 200,
                        OrderDesc({VitalColumns(r) : r \in {x \in vitals :
                                        x.user_id = target /\ VitalsSelf(uid, x)}}),
                        Null)
    /\ UNCHANGED <<client, profiles, patient_profiles, doctor_profiles, habits, vitals,
                   doctor_patient_links, inflight>>

\* ------------------------------------------------------------ specifications
\* The access gateway, one request at a time: accounts, consent, reads.
Next ==
    \/ \E u \in Users, role \in RoleInputs : ProfileUpsert(u, role, Undef)
    \/ \E u \in Users, t \in TargetInputs : ProfileGet(u, t)
    \/ \E u \in Users, t \in TargetInputs, g \in RangeInputs : HabitsFetch(u, t, g)
    \/ \E u \in Users, t \in TargetInputs, g \in RangeInputs : VitalsFetch(u, t, g)
    \/ \E u \in Users, t \in TargetInputs : LinkSelect(u, t, Missing)
    \/ \E u \in Users, e \in EmailInputs : LinkSelect(u, Missing, e)

Spec == Init /\ [][Next]_vars

\* The gateway with today's records being written: what a read returns.
NextView ==
    \/ \E u \in Users, role \in {"patient", "doctor"} : ProfileUpsert(u, role, Undef)
    \/ \E u \in Users, t \in TargetInputs : ProfileGet(u, t)
    \/ \E u \in Users, t \in TargetInputs : HabitsFetch(u, t, Undef)
    \/ \E u \in Users, t \in TargetInputs : VitalsFetch(u, t, Undef)
    \/ \E u \in Users, t \in Users : LinkSelect(u, t, Missing)
    \/ \E u \in Users, v \in Users : LinkSelect(u, Missing, AuthEmail[v])
    \/ \E u \in Users, b \in SeedHabitBodies : HabitsUpsert(u, 0, b)
    \/ \E u \in Users, b \in SeedVitalBodies : VitalsUpsert(u, 0, b)

SpecView == Init /\ [][NextView]_vars

\* The daily-record store, one request at a time.
NextRecords ==
    \/ \E u \in Users : ProfileUpsert(u, "patient", Undef)
    \/ \E u \in Users, d \in DateInputs, b \in HabitBodies : HabitsUpsert(u, d, b)
    \/ \E u \in Users, d \in DateInputs, b \in VitalBodies : VitalsUpsert(u, d, b)

SpecRecords == Init /\ [][NextRecords]_vars

\* The daily-record store with the upsert handlers' awaits interleaved; every
\* request leaves the date out, so an account's requests meet on today's row.
NextRace ==
    \/ \E u \in Users : ProfileUpsert(u, "patient", Undef)
    \/ \E s \in Slots, u \in Users, b \in HabitBodies : HabitsUpsertLookup(s, u, 0, b)
    \/ \E s \in Slots : HabitsUpsertWrite(s)
    \/ \E s \in Slots, u \in Users, b \in VitalBodies : VitalsUpsertLookup(s, u, 0, b)
    \/ \E s \in Slots : VitalsUpsertWrite(s)
    \/ \E s \in Slots : Delivered(s)

SpecRace == Init /\ [][NextRace]_vars

\* The consent registry, through the gateway and through the link table's
\* row-level policy.
NextStorage ==
    \/ \E u \in Users, role \in {"patient", "doctor"} : ProfileUpsert(u, role, Undef)
    \/ \E u \in Users, t \in Users : LinkSelect(u, t, Missing)
    \/ \E u \in Users, v \in Users : LinkSelect(u, Missing, AuthEmail[v])
    \/ \E u, p, d \in Users, ps, ds \in BOOLEAN : StorageLinkInsert(u, p, d, ps, ds)
    \/ \E u, p, d \in Users, ps, ds \in BOOLEAN : StorageLinkUpdate(u, p, d, ps, ds)
    \/ \E u, p, d \in Users : StorageLinkDelete(u, p, d)

SpecStorage == Init /\ [][NextStorage]_vars

\* The consent registry with the awaits of link.select interleaved.
NextLinkRace ==
    \/ \E u \in Users, role \in {"patient", "doctor"} : ProfileUpsert(u, role, Undef)
    \/ \E s \in Slots, u \in Users, t \in Users : LinkSelectLookup(s, u, t, Missing)
    \/ \E s \in Slots, u \in Users, v \in Users :
          LinkSelectLookup(s, u, Missing, AuthEmail[v])
    \/ \E s \in Slots : LinkSelectInsert(s)
    \/ \E s \in Slots : LinkSelectUpdate(s)
    \/ \E s \in Slots : Delivered(s)

SpecLinkRace == Init /\ [][NextLinkRace]_vars

\* The consent registry and what link.list shows of it.
NextLinks ==
    \/ \E u \in Users, role \in RoleInputs : ProfileUpsert(u, role, Undef)
    \/ \E u \in Users, t \in Users : LinkSelect(u, t, Missing)
    \/ \E u \in Users, v \in Users : LinkSelect(u, Missing, AuthEmail[v])
    \/ \E u \in Users : LinkList(u)

SpecLinks == Init /\ [][NextLinks]_vars

\* The handler from the method and the credential on.
NextAuth == \E method \in Methods, cred \in Credentials, req \in Requests :
                Handler(method, cred, req)

SpecAuth == Init /\ [][NextAuth]_vars

\* Profile submissions with their detail fields, and consent.
AgeInputs == {Undef, Huge}

NextAtomic ==
    \/ \E u \in Users, role \in RoleInputs, age \in AgeInputs : ProfileUpsert(u, role, age)
    \/ \E u \in Users, t \in TargetInputs : LinkSelect(u, t, Missing)
    \/ \E u \in Users, e \in EmailInputs : LinkSelect(u, Missing, e)

SpecAtomic == Init /\ [][NextAtomic]_vars

\* Records and consent written through the gateway, rows read through the
\* tables' row-level policies.
NextPolicy ==
    \/ \E u \in Users, role \in {"patient", "doctor"} : ProfileUpsert(u, role, Undef)
    \/ \E u \in Users, t \in Users : LinkSelect(u, t, Missing)
    \/ \E u \in Users, v \in Users : LinkSelect(u, Missing, AuthEmail[v])
    \/ \E u \in Users, b \in SeedHabitBodies : HabitsUpsert(u, 0, b)
    \/ \E u \in Users, b \in SeedVitalBodies : VitalsUpsert(u, 0, b)
    \/ \E u \in Users, t \in Users : StorageProfilesSelect(u, t)
    \/ \E u \in Users, t \in Users : StorageHabitsSelect(u, t)
    \/ \E u \in Users, t \in Users : StorageVitalsSelect(u, t)

SpecPolicy == Init /\ [][NextPolicy]_vars

\* Upsert bodies that name an account in a user_id field of their own.
NamedHabitBodies == {[user_id |-> v] @@ b : v \in Users \cup {Ghost}, b \in HabitBodies}
NamedVitalBodies == {[user_id |-> v] @@ b : v \in Users \cup {Ghost}, b \in VitalBodies}

\* The write actions, with bodies that name accounts.
NextScope ==
    \/ \E u \in Users, role \in {"patient", "doctor"} : ProfileUpsert(u, role, Undef)
    \/ \E u \in Users, b \in NamedHabitBodies : HabitsUpsert(u, 0, b)
    \/ \E u \in Users, b \in NamedVitalBodies : VitalsUpsert(u, 0, b)

SpecScope == Init /\ [][NextScope]_vars

\* What a numeric field of an upsert body can carry: nothing, text that does
\* not parse, the number 0, a number with a fraction.
FieldInputs == {Undef, Text, Num(0), Num(75)}

\* Upsert bodies whose fields vary one by one.
FieldHabitBodies ==
    {[steps |-> a, water_cups |-> b, sleep_hours |-> c] :
        a \in FieldInputs, b \in {Undef, Num(0)}, c \in FieldInputs}
FieldVitalBodies ==
    {[blood_glucose |-> a, blood_pressure_sys |-> Num(1200),
      blood_pressure_dia |-> Undef, heart_rate |-> b, body_temperature |-> c] :
        a \in FieldInputs, b \in {Text, Num(0)}, c \in FieldInputs}

\* One account's upserts for today, over every combination of field inputs.
NextCoerce ==
    \/ ProfileUpsert(UserIds[1], "patient", Undef)
    \/ \E b \in FieldHabitBodies : HabitsUpsert(UserIds[1], 0, b)
    \/ \E b \in FieldVitalBodies : VitalsUpsert(UserIds[1], 0, b)

SpecCoerce == Init /\ [][NextCoerce]_vars

\* At most one store read fails during a request.
FaultInputs == {{}} \cup {{op} : op \in StoreReads}

\* Profiles, consent and the reads, over a store whose reads may fail.
NextFault ==
    \/ \E u \in Users, role \in {"patient", "doctor"} : ProfileUpsert(u, role, Undef)
    \/ \E u \in Users, t \in Users : LinkSelect(u, t, Missing)
    \/ \E u \in Users, e \in {AuthEmail[v] : v \in Users} : LinkSelect(u, Missing, e)
    \/ \E u \in Users, f \in FaultInputs : MeOn(f, u)
    \/ \E u \in Users, t \in TargetInputs, f \in FaultInputs : ProfileGetOn(f, u, t)
    \/ \E u \in Users, t \in TargetInputs, f \in FaultInputs : HabitsFetchOn(f, u, t)

SpecFault == Init /\ [][NextFault]_vars

\* Requests that lack what their action needs, next to the ones that set
\* profiles and links up.
BadRequestInputs ==
    {Request(a, Missing, Missing, Missing, Missing) :
        a \in {Missing, "bogus", "profile.get", "link.select"}}
    \cup {Request("profile.get", t, Missing, Missing, Missing) : t \in Users}
    \cup {Request("profile.upsert", Missing, role, Missing, Missing) :
            role \in {"patient", "doctor"}}
    \cup {Request("link.select", Missing, Missing, t, Missing) : t \in Users}
    \cup {Request("link.select", Missing, Missing, Missing, AuthEmail[t]) : t \in Users}

\* The gateway answering authenticated requests, well-formed or not.
NextBad ==
    \E method \in {"GET", "POST"}, u \in Users, req \in BadRequestInputs :
        Handler(method, Valid(u), req)

SpecBad == Init /\ [][NextBad]_vars

\* Profiles of every role, links, and the list of doctors.
NextDoctors ==
    \/ \E u \in Users, role \in RoleInputs : ProfileUpsert(u, role, Undef)
    \/ \E u \in Users, t \in Users : LinkSelect(u, t, Missing)
    \/ \E u \in Users : DoctorsList(u)

SpecDoctors == Init /\ [][NextDoctors]_vars

\* Arguments of the cache's calls: a type the cache starts with and one it
\* does not, the empty key and two others, two values.
CacheTypes == {"habits", "notes"}
CacheKeys == {"", "k1", "k2"}
CacheValues == {"v1", "v2"}

\* The data cache, called in every order.
NextCache ==
    \/ \E t \in CacheTypes, k \in CacheKeys : GetCached(t, k)
    \/ \E t \in CacheTypes, k \in CacheKeys, v \in CacheValues : SetCached(t, k, v)
    \/ \E t \in CacheTypes \cup {Omitted}, k \in CacheKeys \cup {Omitted} : Clear(t, k)

SpecCache == Init /\ [][NextCache]_vars

\* The gateway's profiles, links and profile reads, next to a client that
\* fills and empties its cache as it likes (entries are keyed by account).
NextAuthority ==
    \/ \E u \in Users, role \in {"patient", "doctor"} : ProfileUpsert(u, role, Undef)
    \/ \E u \in Users, t \in Users : LinkSelect(u, t, Missing)
    \/ \E u \in Users, v \in Users : LinkSelect(u, Missing, AuthEmail[v])
    \/ \E u \in Users, t \in Users \cup {Ghost} : ProfileGet(u, t)
    \/ \E t \in Users \cup {Ghost} : SetCached("habits", t, "v1")
    \/ Clear(Omitted, Omitted)

SpecAuthority == Init /\ [][NextAuthority]_vars

\* A doctor, its patients and their entries, and the doctor's HabitsCard.
NextCard ==
    \/ ProfileUpsert(CardViewer, "doctor", Undef)
    \/ \E p \in Users \ {CardViewer} : ProfileUpsert(p, "patient", Undef)
    \/ \E p \in Users \ {CardViewer} : LinkSelect(p, CardViewer, Missing)
    \/ \E p \in Users \ {CardViewer} : LinkSelect(CardViewer, Missing, AuthEmail[p])
    \/ \E u \in Users, b \in SeedHabitBodies : HabitsUpsert(u, 0, b)
    \/ \E s \in Slots, t \in (Users \ {CardViewer}) \cup {Missing} : CardSelect(s, t)
    \/ \E s \in Slots : CardServe(s)
    \/ \E s \in Slots : CardDeliver(s)

SpecCard == Init /\ [][NextCard]_vars

\* ------------------------------------------------------------------ claims
RoleOf(u) ==
    LET rows == {r \in profiles : r.id = u}
    IN  IF rows = {} THEN "none" ELSE (CHOOSE r \in rows : TRUE).role

LinkRows(table, p, d) == {r \in table : r.patient_id = p /\ r.doctor_id = d}

Mutual(p, d) ==
    \E r \in LinkRows(doctor_patient_links, p, d) : r.patient_selected /\ r.doctor_selected

Reads == {"profile.get", "habits.fetch", "vitals.fetch"}

Elems(seq) == {seq[i] : i \in 1..Len(seq)}

\* What the store holds of account t for a read action.
RowsOf(action, t) ==
    IF action = "profile.get" THEN {r \in profiles : r.id = t}
    ELSE IF action = "habits.fetch"
    THEN {HabitColumns(r) : r \in {x \in habits : x.user_id = t}}
    ELSE {VitalColumns(r) : r \in {x \in vitals : x.user_id = t}}

\* C1: a read of another account's profile, habits or vitals is permitted
\* (answered 200 with that account's rows) exactly when the caller's role is
\* doctor and the link (patient = target, doctor = caller) has both flags
\* true; in every other case it is answered 403 and carries no data.
C1_CrossAccountRead ==
    (last.action \in Reads /\ last.target # Missing /\ last.target # last.caller) =>
        LET consented == RoleOf(last.caller) = "doctor"
                         /\ Mutual(last.target, last.caller)
        IN  /\ consented =>
                (last.status = 200 /\ Elems(last.data) = RowsOf(last.action, last.target))
            /\ ~consented => (last.status = 403 /\ last.data = <<>>)

\* A consented doctor has fetched a patient's habits and got entries.
C1_Witness ==
    /\ last.action = "habits.fetch"
    /\ last.target \notin {Missing, last.caller}
    /\ last.status = 200
    /\ last.data # <<>>

\* C2: a read of the caller's own rows (target = caller, or the target left
\* out of a fetch) is never answered 403, whatever the caller's role or
\* profile and whatever links exist.
C2_SelfAccess ==
    (/\ last.action \in Reads
     /\ \/ last.target = last.caller
        \/ last.target = Missing /\ last.action # "profile.get") =>
        last.status # 403

\* An account without a profile has fetched its own vitals, target left out.
C2_Witness ==
    /\ last.action = "vitals.fetch"
    /\ last.target = Missing
    /\ RoleOf(last.caller) = "none"
    /\ last.status = 200

Store == <<profiles, patient_profiles, doctor_profiles, habits, vitals,
           doctor_patient_links>>

PatientFlag(table, p, d) == \E r \in LinkRows(table, p, d) : r.patient_selected
DoctorFlag(table, p, d) == \E r \in LinkRows(table, p, d) : r.doctor_selected

\* C3: in every step that turns patient_selected of the link (p, d) from
\* false or absent to true the acting account is p, and in every step that
\* turns doctor_selected of (p, d) to true the acting account is d, through
\* link.select and through the link table's row-level policy alike.
C3_OwnFlagOnly ==
    [][\A p \in Users, d \in Users :
          /\ (~PatientFlag(doctor_patient_links, p, d)
              /\ PatientFlag(doctor_patient_links', p, d)) => last'.caller = p
          /\ (~DoctorFlag(doctor_patient_links, p, d)
              /\ DoctorFlag(doctor_patient_links', p, d)) => last'.caller = d]_vars

\* C4: a consent flag that is true stays true in every later state, and a
\* link with both flags true is left exactly as it is by every operation.
C4_FlagsMonotone ==
    [][\A r \in doctor_patient_links :
          \E n \in doctor_patient_links' :
              /\ n.patient_id = r.patient_id /\ n.doctor_id = r.doctor_id
              /\ r.patient_selected => n.patient_selected
              /\ r.doctor_selected => n.doctor_selected
              /\ (r.patient_selected /\ r.doctor_selected) => n = r]_vars

\* link.select has run on a link that was already mutual, and it still is.
C4_Witness ==
    /\ last.action = "link.select"
    /\ last.status = 200
    /\ last.existing # Null
    /\ last.existing[1].patient_selected /\ last.existing[1].doctor_selected
    /\ last.existing[1] \in doctor_patient_links

\* C5: a successful link.select by a patient P with doctor_id = D leaves
\* exactly one link row for (P, D), with patient_selected true and
\* doctor_selected as it was before the call (false if there was no row);
\* every other link row and every other table is unchanged.
C5_PatientSelectFrame ==
    [][(/\ last'.action = "link.select"
        /\ last'.status = 200
        /\ RoleOf(last'.caller) = "patient") =>
          LET old == LinkRows(doctor_patient_links, last'.caller, last'.target)
              new == LinkRows(doctor_patient_links', last'.caller, last'.target)
          IN  /\ Cardinality(new) = 1
              /\ \A n \in new :
                    /\ n.patient_selected
                    /\ n.doctor_selected = (\E r \in old : r.doctor_selected)
              /\ doctor_patient_links' \ new = doctor_patient_links \ old
              /\ UNCHANGED <<profiles, patient_profiles, doctor_profiles, habits,
                             vitals>>]_vars

\* A patient has selected a doctor who had selected them first: the link
\* found had the doctor's flag alone, and is mutual now.
C5_Witness ==
    /\ last.action = "link.select"
    /\ last.status = 200
    /\ RoleOf(last.caller) = "patient"
    /\ last.existing # Null
    /\ ~last.existing[1].patient_selected /\ last.existing[1].doctor_selected
    /\ Mutual(last.caller, last.target)

\* C6: link.select by a doctor D with patient_email = e is answered 404 and
\* changes no link row when no account has email e and role patient;
\* otherwise it succeeds and leaves one link (that patient, D) with
\* doctor_selected true and patient_selected as it was before the call.
C6_DoctorSelectByEmail ==
    [][(/\ last'.action = "link.select"
        /\ RoleOf(last'.caller) = "doctor"
        /\ last'.email # Missing) =>
          LET found == {r \in profiles : r.email = last'.email /\ r.role = "patient"}
          IN  IF found = {}
              THEN last'.status = 404 /\ UNCHANGED doctor_patient_links
              ELSE \A p \in found :
                      LET old == LinkRows(doctor_patient_links, p.id, last'.caller)
                          new == LinkRows(doctor_patient_links', p.id, last'.caller)
                      IN  /\ last'.status = 200
                          /\ Cardinality(new) = 1
                          /\ \A n \in new :
                                /\ n.doctor_selected
                                /\ n.patient_selected = (\E r \in old : r.patient_selected)]_vars

\* A doctor has asked for the email of an account that exists but is not a
\* patient, and was answered 404.
C6_Witness ==
    /\ last.action = "link.select"
    /\ RoleOf(last.caller) = "doctor"
    /\ last.status = 404
    /\ \E r \in profiles : r.email = last.email /\ r.role # "patient"

\* C7: link.select{doctor_id: D} called by a patient P a second time in a
\* row leaves the store exactly as the first call left it and is answered
\* alike; after a success there is exactly one link row for (P, D) and its
\* patient_selected is true.
C7_LinkSelectIdempotent ==
    [][(/\ last.action = "link.select"
        /\ last'.action = "link.select"
        /\ last'.caller = last.caller
        /\ last'.target = last.target
        /\ last.target # Missing
        /\ RoleOf(last.caller) = "patient") =>
          /\ UNCHANGED Store
          /\ last'.status = last.status
          /\ last.status = 200 =>
                LET rows == LinkRows(doctor_patient_links', last.caller, last.target)
                IN  Cardinality(rows) = 1 /\ \A n \in rows : n.patient_selected]_vars

\* A patient's link.select has found the link with their own flag already set.
C7_Witness ==
    /\ last.action = "link.select"
    /\ last.status = 200
    /\ RoleOf(last.caller) = "patient"
    /\ last.target # Missing
    /\ last.existing # Null
    /\ last.existing[1].patient_selected

\* The rows a table holds for one (account, date).
KeyRows(table, u, d) == {r \in table : r.user_id = u /\ r.date = d}

\* The table an upsert action writes.
TableOf(action, h, v) == IF action = "habits.upsert" THEN h ELSE v

\* C8: habits and vitals each hold at most one row per (account, date) under
\* every interleaving of upsert requests, and once an upsert by account A for
\* date d has succeeded exactly one row for (A, d) exists.
C8_OneRowPerDay ==
    /\ \A u \in Users, d \in Dates :
          Cardinality(KeyRows(habits, u, d)) <= 1 /\ Cardinality(KeyRows(vitals, u, d)) <= 1
    /\ \A s \in Slots :
          (inflight[s].pc = "done" /\ inflight[s].status = 200) =>
              Cardinality(KeyRows(TableOf(inflight[s].action, habits, vitals),
                                  inflight[s].user, inflight[s].date)) = 1

\* Two requests for one (account, date) were in flight together, both have
\* written, one was answered 200 and one 500, and the table holds one row.
C8_Witness ==
    \E s \in Slots, t \in Slots :
        /\ inflight[s].pc = "done" /\ inflight[t].pc = "done"
        /\ inflight[s].action = inflight[t].action
        /\ inflight[s].user = inflight[t].user
        /\ inflight[s].date = inflight[t].date
        /\ inflight[s].status = 200 /\ inflight[t].status = 500
        /\ inflight[s].user \in ProfileIds(profiles)
        /\ Cardinality(KeyRows(TableOf(inflight[s].action, habits, vitals),
                               inflight[s].user, inflight[s].date)) = 1

\* The stored value of a habit field: the number sent, else 0.
HabitValue(v, whole) ==
    IF v.kind # "num" THEN 0 ELSE IF whole THEN Trunc(v.val) ELSE v.val

\* The stored value of a vital field: the number sent, else null.
VitalValue(v, whole) ==
    IF v.kind # "num" THEN Null ELSE IF whole THEN Some(Trunc(v.val)) ELSE Some(v.val)

\* C9: after a successful upsert the table holds exactly one row for the
\* (account, date), and every field of it is the coerced value of that
\* request (a field left out is 0 for habits, null for vitals): when the row
\* was there before, nothing of the earlier write survives.
C9_SecondWriteWins ==
    /\ (last.action = "habits.upsert" /\ last.status = 200) =>
          KeyRows(habits, last.caller, last.date) =
              {[id |-> RecordId(last.caller, last.date),
                user_id |-> last.caller, date |-> last.date,
                steps |-> HabitValue(last.body[1].steps, TRUE),
                water_cups |-> HabitValue(last.body[1].water_cups, TRUE),
                sleep_hours |-> HabitValue(last.body[1].sleep_hours, FALSE)]}
    /\ (last.action = "vitals.upsert" /\ last.status = 200) =>
          KeyRows(vitals, last.caller, last.date) =
              {[id |-> RecordId(last.caller, last.date),
                user_id |-> last.caller, date |-> last.date,
                blood_glucose |-> VitalValue(last.body[1].blood_glucose, TRUE),
                blood_pressure_sys |-> VitalValue(last.body[1].blood_pressure_sys, TRUE),
                blood_pressure_dia |-> VitalValue(last.body[1].blood_pressure_dia, TRUE),
                heart_rate |-> VitalValue(last.body[1].heart_rate, TRUE),
                body_temperature |-> VitalValue(last.body[1].body_temperature, FALSE)]}

\* A habits.upsert that left steps out has overwritten a row that was there:
\* the row's steps are 0.
C9_Witness ==
    /\ last.action = "habits.upsert"
    /\ last.status = 200
    /\ last.existing # Null
    /\ last.body[1].steps = Undef
    /\ \E r \in KeyRows(habits, last.caller, last.date) : r.steps = 0

\* The row a request in flight writes.
RowOf(r) ==
    IF r.action = "habits.upsert"
    THEN WithId(HabitRow(r.user, r.date, r.body[1]), RecordId(r.user, r.date))
    ELSE WithId(VitalRow(r.user, r.date, r.body[1]), RecordId(r.user, r.date))

\* C10: when two upserts of one account for one date are in flight together,
\* each write step is answered 200 and leaves a single row carrying the
\* values of one of the two requests, under every interleaving.
C10_LastWriteWins ==
    [][\A s \in Slots, t \in Slots :
          (/\ s # t
           /\ inflight[s].pc = "looked" /\ inflight'[s].pc = "done"
           /\ inflight[t].pc # "idle"
           /\ inflight[t].action = inflight[s].action
           /\ inflight[t].user = inflight[s].user
           /\ inflight[t].date = inflight[s].date
           /\ inflight[s].user \in ProfileIds(profiles)) =>
              /\ inflight'[s].status = 200
              /\ KeyRows(TableOf(inflight[s].action, habits', vitals'),
                         inflight[s].user, inflight[s].date)
                    \in {{RowOf(inflight[s])}, {RowOf(inflight[t])}}]_vars

\* C11: when a patient's and a doctor's first link.select for one pair are in
\* flight together, the insert of either is never refused (no duplicate-key
\* error), under every interleaving.
C11_FirstSelectionsConverge ==
    [][\A s \in Slots, t \in Slots :
          (/\ inflight[s].action = "link.select" /\ inflight[s].pc = "looked"
           /\ inflight'[s].pc # "looked"
           /\ inflight[t].action = "link.select" /\ inflight[t].body # Null
           /\ inflight[t].user # inflight[s].user
           /\ inflight[t].body[1].patient_id = inflight[s].body[1].patient_id
           /\ inflight[t].body[1].doctor_id = inflight[s].body[1].doctor_id
           /\ LinksForeignKeys(NewLink(inflight[s].body[1]))) =>
              /\ inflight'[s].pc = "linked"
              /\ Cardinality(LinkRows(doctor_patient_links',
                                      inflight[s].body[1].patient_id,
                                      inflight[s].body[1].doctor_id)) = 1]_vars

\* C12: there is at most one link row per ordered (patient, doctor) pair in
\* every state, and a link row that exists is there, for the same pair and
\* under the same id, after every step of the gateway.
C12_OneLinkPerPair ==
    /\ [](\A p \in Users, d \in Users :
             Cardinality(LinkRows(doctor_patient_links, p, d)) <= 1)
    /\ [][\A r \in doctor_patient_links :
             \E n \in doctor_patient_links' :
                 n.id = r.id /\ n.patient_id = r.patient_id /\ n.doctor_id = r.doctor_id]_vars

\* Requests of both parties for one pair have completed with 200, one after
\* a lookup that found no row, and the pair has one row with both flags.
C12_Witness ==
    \E s \in Slots, t \in Slots :
        /\ inflight[s].pc = "done" /\ inflight[t].pc = "done"
        /\ inflight[s].action = "link.select" /\ inflight[t].action = "link.select"
        /\ inflight[s].status = 200 /\ inflight[t].status = 200
        /\ inflight[s].user # inflight[t].user
        /\ inflight[s].body # Null /\ inflight[t].body # Null
        /\ inflight[s].body[1].patient_id = inflight[t].body[1].patient_id
        /\ inflight[s].body[1].doctor_id = inflight[t].body[1].doctor_id
        /\ Cardinality(LinkRows(doctor_patient_links, inflight[s].body[1].patient_id,
                                inflight[s].body[1].doctor_id)) = 1
        /\ Mutual(inflight[s].body[1].patient_id, inflight[s].body[1].doctor_id)

\* C19: link.list answers a doctor D with exactly the patients P whose link
\* (P, D) has both flags true, which are the other accounts D may read, and
\* a patient P with exactly the doctors D whose link (P, D) has both flags
\* true; an account on a one-sided link is never listed.
C19_LinkListMutual ==
    (last.action = "link.list" /\ RoleOf(last.caller) \in {"patient", "doctor"}) =>
        /\ last.status = 200
        /\ RoleOf(last.caller) = "doctor" =>
              /\ Elems(last.data) = {p \in Users : Mutual(p, last.caller)}
              /\ Elems(last.data) \ {last.caller} =
                    {t \in Users \ {last.caller} : CrossAccountGate(last.caller, t) = 0}
        /\ RoleOf(last.caller) = "patient" =>
              Elems(last.data) = {d \in Users : Mutual(last.caller, d)}

\* C13: a GET or POST request without a bearer credential, or with one the
\* identity provider rejects, is answered 401 with no data whatever its
\* action, and the step leaves every table as it was.
C13_Unauthenticated ==
    /\ [](("credential" \in DOMAIN last /\ last.method \in {"GET", "POST"}
           /\ last.credential.kind # "valid") =>
              (last.status = 401 /\ last.data = <<>>))
    /\ [][("credential" \in DOMAIN last' /\ last'.method \in {"GET", "POST"}
           /\ last'.credential.kind # "valid") => UNCHANGED Store]_vars

\* A POST profile.upsert with a rejected token in the name of an account
\* without a profile was answered 401, and other accounts have profiles.
C13_Witness ==
    /\ "credential" \in DOMAIN last
    /\ last.method = "POST"
    /\ last.action = "profile.upsert"
    /\ last.credential.kind = "rejected"
    /\ last.status = 401
    /\ last.credential.user \notin ProfileIds(profiles)
    /\ profiles # {}

\* The authorization rule of section 4.1: the caller itself, or a doctor
\* with a link to the target that has both flags true.
Permits(c, t) == c = t \/ (RoleOf(c) = "doctor" /\ Mutual(t, c))

\* C14: a cross-account profile.get, habits.fetch or vitals.fetch that the
\* authorization rule denies is answered 403 whether or not the target has
\* a profile or is an account at all, never 404; profile.get answers 404
\* only to a request the rule permits.
C14_AuthorizationBeforeExistence ==
    /\ (/\ last.action \in Reads
        /\ last.target # Missing
        /\ ~Permits(last.caller, last.target)) => last.status = 403
    /\ (last.action = "profile.get" /\ last.status = 404) =>
          Permits(last.caller, last.target)

\* A doctor without a link has asked for the profile of an id that belongs
\* to no account, and was answered 403.
C14_Witness ==
    /\ last.action = "profile.get"
    /\ RoleOf(last.caller) = "doctor"
    /\ last.target = Ghost
    /\ last.status = 403

RoleIn(table, u) ==
    LET rows == {r \in table : r.id = u}
    IN  IF rows = {} THEN "none" ELSE (CHOOSE r \in rows : TRUE).role

\* C15: once a profile.upsert has stored role patient or doctor for an
\* account, no later step changes that account's role.
C15_RoleImmutable ==
    [][\A u \in Users :
          RoleIn(profiles, u) \in {"patient", "doctor"} =>
              RoleIn(profiles', u) = RoleIn(profiles, u)]_vars

\* C16: every request answered with an error (4xx or 5xx) leaves every table
\* exactly as it was before the request.
C16_ErrorsChangeNothing ==
    [][last'.status >= 400 => UNCHANGED Store]_vars

\* The rows a table holds of an account, as a direct select shows them.
StoredRows(action, t) ==
    IF action = "storage.profiles.select" THEN {r \in profiles : r.id = t}
    ELSE IF action = "storage.habits.select"
    THEN {HabitColumns(r) : r \in {x \in habits : x.user_id = t}}
    ELSE {VitalColumns(r) : r \in {x \in vitals : x.user_id = t}}

\* C17: the tables' row-level policies show an account C the profile, habits
\* and vitals rows of an account T exactly when the gateway's rule permits C
\* to read T (C is T, or C is a doctor whose link with T has both flags).
C17_PolicyIsGatewayRule ==
    (/\ last.action \in {"storage.profiles.select", "storage.habits.select",
                         "storage.vitals.select"}
     /\ StoredRows(last.action, last.target) # {}) =>
        ((Elems(last.data) = StoredRows(last.action, last.target))
            <=> Permits(last.caller, last.target))

\* C18: profile.upsert, habits.upsert and vitals.upsert by a caller C, whatever
\* account the body names, leave every row of every other account in
\* profiles, patient_profiles, doctor_profiles, habits and vitals unchanged.
C18_WritesSelfScoped ==
    [][last'.action \in {"profile.upsert", "habits.upsert", "vitals.upsert"} =>
          LET c == last'.caller
          IN  /\ {r \in profiles' : r.id # c} = {r \in profiles : r.id # c}
              /\ {r \in patient_profiles' : r.user_id # c}
                    = {r \in patient_profiles : r.user_id # c}
              /\ {r \in doctor_profiles' : r.user_id # c}
                    = {r \in doctor_profiles : r.user_id # c}
              /\ {r \in habits' : r.user_id # c} = {r \in habits : r.user_id # c}
              /\ {r \in vitals' : r.user_id # c} = {r \in vitals : r.user_id # c}]_vars

\* A habits.upsert whose body names another account that has a profile was
\* answered 200: the caller has today's row, the named account has none.
C18_Witness ==
    /\ last.action = "habits.upsert"
    /\ last.status = 200
    /\ last.body[1].user_id # last.caller
    /\ last.body[1].user_id \in ProfileIds(profiles)
    /\ KeyRows(habits, last.caller, last.date) # {}
    /\ KeyRows(habits, last.body[1].user_id, last.date) = {}

\* The fields of a stored record that hold the whole-number and fractional
\* inputs of the request.
HabitFieldNames == {"steps", "water_cups", "sleep_hours"}
VitalFieldNames ==
    {"blood_glucose", "blood_pressure_sys", "blood_pressure_dia", "heart_rate",
     "body_temperature"}

\* C20: after a successful habits.upsert every habit field that was missing
\* or did not parse as a number is stored as 0; after a successful
\* vitals.upsert every vital field that was missing or did not parse is stored
\* as null, never as 0, whatever the other fields of the request carry.
C20_LenientCoercion ==
    /\ (last.action = "habits.upsert" /\ last.status = 200) =>
          /\ KeyRows(habits, last.caller, last.date) # {}
          /\ \A r \in KeyRows(habits, last.caller, last.date), f \in HabitFieldNames :
                last.body[1][f].kind # "num" => r[f] = 0
    /\ (last.action = "vitals.upsert" /\ last.status = 200) =>
          /\ KeyRows(vitals, last.caller, last.date) # {}
          /\ \A r \in KeyRows(vitals, last.caller, last.date), f \in VitalFieldNames :
                last.body[1][f].kind # "num" => r[f] = Null /\ r[f] # Some(0)

\* A vitals.upsert was answered 200 with one field missing, one that does not
\* parse and one that is the number 0: null, null and 0 are stored.
C20_Witness ==
    /\ last.action = "vitals.upsert"
    /\ last.status = 200
    /\ last.body[1].blood_glucose = Undef
    /\ last.body[1].body_temperature = Text
    /\ last.body[1].heart_rate = Num(0)
    /\ \E r \in KeyRows(vitals, last.caller, last.date) :
          /\ r.blood_glucose = Null
          /\ r.body_temperature = Null
          /\ r.heart_rate = Some(0)

\* C21: every stored habits row has steps >= 0, water_cups >= 0 and
\* sleep_hours >= 0, whatever numbers the habits.upsert requests carried.
C21_HabitsNonNegative ==
    \A r \in habits : r.steps >= 0 /\ r.water_cups >= 0 /\ r.sleep_hours >= 0

\* C22: a request that the authorization rule permits and one of whose store
\* reads failed is answered 500, never 200, 403 or 404.
C22_StoreFailureIs500 ==
    (/\ "failed" \in DOMAIN last
     /\ last.failed # {}
     /\ Permits(last.caller, IF last.target = Missing THEN last.caller ELSE last.target))
        => last.status = 500

\* The actions of the gateway's switch.
KnownActions ==
    {"me", "profile.get", "profile.upsert", "habits.upsert", "habits.fetch",
     "vitals.upsert", "vitals.fetch", "doctors.list", "link.select", "link.list"}

\* The authenticated request l lacks what its action needs: the action is
\* unknown or missing, profile.get has no user_id, a patient's link.select
\* has no doctor_id, a doctor's link.select has no patient_email.
BadRequest(l) ==
    /\ "credential" \in DOMAIN l
    /\ l.credential.kind = "valid"
    /\ l.method # "OPTIONS"
    /\ \/ l.action \notin KnownActions
       \/ l.action = "profile.get" /\ l.target = Missing
       \/ /\ l.action = "link.select"
          /\ RoleOf(l.caller) = "patient"
          /\ (l.method # "POST" \/ l.target = Missing)
       \/ /\ l.action = "link.select"
          /\ RoleOf(l.caller) = "doctor"
          /\ (l.method # "POST" \/ l.email = Missing)

\* C23: an authenticated request that lacks what its action needs is
\* answered 400 and leaves every table unchanged.
C23_BadRequestRejected ==
    [][BadRequest(last') => (last'.status = 400 /\ UNCHANGED Store)]_vars

\* A patient with a link has sent link.select by POST without a doctor_id
\* and was answered 400.
C23_Witness ==
    /\ BadRequest(last)
    /\ last.action = "link.select"
    /\ last.method = "POST"
    /\ RoleOf(last.caller) = "patient"
    /\ last.status = 400
    /\ \E r \in doctor_patient_links : r.patient_id = last.caller

\* C24: doctors.list answers every authenticated caller 200 with exactly the
\* accounts whose role is doctor and that have a doctor_profiles row, each
\* once; no account whose role is patient is listed.
C24_DoctorsListExact ==
    last.action = "doctors.list" =>
        /\ last.status = 200
        /\ Elems(last.data) =
              {u \in Users : RoleOf(u) = "doctor"
                                /\ \E d \in doctor_profiles : d.user_id = u}
        /\ Len(last.data) = Cardinality(Elems(last.data))
        /\ \A u \in Elems(last.data) : RoleOf(u) # "patient"

\* doctors.list was asked by an account that is now a patient and still has
\* the doctor_profiles row of its time as a doctor; the other doctor is listed.
C24_Witness ==
    /\ last.action = "doctors.list"
    /\ last.data # <<>>
    /\ RoleOf(last.caller) = "patient"
    /\ \E d \in doctor_profiles : d.user_id = last.caller

\* The entries of a cache: (type, key, value).
Entries(c) == UNION {{<<t, k, c[t][k]>> : k \in DOMAIN c[t]} : t \in DOMAIN c}

\* C30: the cache is a map keyed by (type, key).  getCached returns the
\* entry's value, or null when there is none, and changes nothing;
\* setCached(type, key, v) sets that entry and no other; clear(type, key)
\* removes that entry and no other; clear(type) removes the entries of that
\* type and no other; clear() removes every entry.
C30_CacheIsMap ==
    [][LET call == cacheCall'
           before == Entries(cacheRef)
           after == Entries(cacheRef')
           at == {e \in before : e[1] = call.type /\ e[2] = call.key}
           of == {e \in before : e[1] = call.type}
       IN  /\ call.op = "getCached" =>
                /\ after = before
                /\ call.result = IF at = {} THEN Null
                                 ELSE Some((CHOOSE e \in at : TRUE)[3])
           /\ call.op = "setCached" =>
                after = (before \ at) \cup {<<call.type, call.key, call.value>>}
           /\ (call.op = "clear" /\ call.type # Omitted /\ call.key # Omitted) =>
                after = before \ at
           /\ (call.op = "clear" /\ call.type # Omitted /\ call.key = Omitted) =>
                after = before \ of
           /\ (call.op = "clear" /\ call.type = Omitted /\ call.key = Omitted) =>
                after = {}]_vars

\* C25: the answer to a profile.get is a function of the store and the
\* request alone, the same under every content of the client's cache: 403
\* when the rule of the store's roles and links denies it, else 404 when the
\* target has no profile, else 200 with the target's row.
C25_CacheHoldsNoAuthority ==
    (last.action = "profile.get" /\ last.target # Missing) =>
        /\ last.status =
              IF ~Permits(last.caller, last.target) THEN 403
              ELSE IF RowsOf("profile.get", last.target) = {} THEN 404
              ELSE 200
        /\ Elems(last.data) =
              IF last.status = 200 THEN RowsOf("profile.get", last.target) ELSE {}

\* The client's cache holds an entry for an account whose profile the
\* gateway has just refused to the caller.
C25_Witness ==
    /\ last.action = "profile.get"
    /\ last.status = 403
    /\ last.target \in ProfileIds(profiles)
    /\ getCached(cacheRef, "habits", last.target) # Null

\* C26: in every state, the states between the steps of a link.select
\* included, every link row has at least one of its two flags true.
C26_NoEmptyConsent ==
    \A r \in doctor_patient_links : r.patient_selected \/ r.doctor_selected

\* C27: for every link row the account stored as patient has role patient
\* and the account stored as doctor has role doctor.
C27_LinkRolesMatch ==
    \A r \in doctor_patient_links :
        RoleOf(r.patient_id) = "patient" /\ RoleOf(r.doctor_id) = "doctor"

\* C28: every profiles row has role patient or doctor, an account of role
\* patient has no doctor_profiles row and an account of role doctor has no
\* patient_profiles row.
C28_RoleMatchesDetail ==
    /\ \A p \in profiles : p.role \in {"patient", "doctor"}
    /\ \A p \in profiles :
          /\ p.role = "patient" => ~\E d \in doctor_profiles : d.user_id = p.id
          /\ p.role = "doctor" => ~\E d \in patient_profiles : d.user_id = p.id

\* C29: once no fetch of the card is in flight, the entries it displays are
\* the ones returned for the selection it has now.
C29_CardShowsSelection ==
    (\A s \in Slots : card.fetches[s].pc = "idle") => card.shownFor = card.selected

====
